---- MODULE Spec2Model ----
(***************************************************************************)
(* A model of find_music_files.py: main() and count_music_files().         *)
(*                                                                         *)
(* Strings are tuples of one-character strings, so that the string         *)
(* functions the program relies on (Path.suffix, str.lower,                *)
(* os.path.basename, os.path.join, the ordering of str) are computed and   *)
(* not assumed.  The file system is an input: a function from directory    *)
(* paths (relative to the root) to the listing os.scandir yields there.    *)
(* It does not change while the program runs.                              *)
(***************************************************************************)
EXTENDS Integers, Sequences, FiniteSets, TLC

VARIABLES
    root_path,          \* args.path, the string given on the command line
    path_kind,          \* what root_path names: "dir", "file" or "missing"
    denied,             \* os.scandir(root_path) raises PermissionError
    fs,                 \* the directory tree under root_path
    pc,                 \* position in main / count_music_files
    music_files_count,  \* dict, as the sequence of its <<key, value>> items
    extension_counts,   \* dict, as the sequence of its <<key, value>> items
    total_count,
    cumulative_count,
    top_subdirs,        \* names of the root's subdirectories, in scandir order
    idx,                \* index in top_subdirs of the loop variable subdir
    subdir_count,
    count,              \* the flat branch's counter
    pending,            \* files the current loop has not met yet
    file_ext,           \* the extension computed for the last file met
    now,                \* the wall clock, in ticks
    start_time,         \* count_music_files' start_time (per subdirectory)
    main_start_time,    \* main's start_time
    stdout,             \* the lines printed so far
    uncaught,           \* the exception that left main, or "none"
    exit_status,        \* -1 while running, then the process' exit status
    scandir_calls       \* directory enumerations started (os.scandir, os.walk)

vars == << root_path, path_kind, denied, fs, pc, music_files_count,
           extension_counts, total_count, cumulative_count, top_subdirs, idx,
           subdir_count, count, pending, file_ext, now, start_time,
           main_start_time, stdout, uncaught, exit_status, scandir_calls >>

----------------------------------------------------------------------------
(* Bounds of the model *)

\* the clock takes the values 0..MaxClock
MaxClock == 1
\* files placed in a small tree
MaxTotalFiles == 2
\* length of the file names tried one at a time
MaxNameLen == 5
\* files in the large subdirectory
BigN == 230

----------------------------------------------------------------------------
(* Strings *)

UpperChars == << "A","B","C","D","E","F","G","H","I","J","K","L","M",
                 "N","O","P","Q","R","S","T","U","V","W","X","Y","Z" >>
LowerChars == << "a","b","c","d","e","f","g","h","i","j","k","l","m",
                 "n","o","p","q","r","s","t","u","v","w","x","y","z" >>
DigitChars == << "0","1","2","3","4","5","6","7","8","9" >>

IndexIn(c, tbl) == IF \E i \in 1..Len(tbl) : tbl[i] = c
                   THEN CHOOSE i \in 1..Len(tbl) : tbl[i] = c
                   ELSE 0

Chars == { ".", "/" } \cup { DigitChars[i] : i \in 1..Len(DigitChars) }
         \cup { UpperChars[i] : i \in 1..Len(UpperChars) }
         \cup { LowerChars[i] : i \in 1..Len(LowerChars) }

\* the code point of a character
OrdTable ==
    [ c \in Chars |->
        IF c = "." THEN 46
        ELSE IF c = "/" THEN 47
        ELSE IF IndexIn(c, DigitChars) > 0 THEN 47 + IndexIn(c, DigitChars)
        ELSE IF IndexIn(c, UpperChars) > 0 THEN 64 + IndexIn(c, UpperChars)
        ELSE 96 + IndexIn(c, LowerChars) ]
Ord(c) == OrdTable[c]

LowerTable ==
    [ c \in Chars |-> IF IndexIn(c, UpperChars) > 0
                      THEN LowerChars[IndexIn(c, UpperChars)]
                      ELSE c ]
LowerChar(c) == LowerTable[c]

\* str.lower()
StrLower(s) == [i \in 1..Len(s) |-> LowerChar(s[i])]

\* str.rfind(c), 1-based; 0 when c does not occur
RFind(s, c) == IF \E i \in 1..Len(s) : s[i] = c
               THEN CHOOSE i \in 1..Len(s) :
                        s[i] = c /\ \A j \in (i+1)..Len(s) : s[j] # c
               ELSE 0

\* s[i:] with i 1-based
From(s, i) == SubSeq(s, i, Len(s))

\* a < b for str: by code point, a proper prefix first
StrLess(a, b) ==
    \/ Len(a) < Len(b) /\ \A j \in 1..Len(a) : a[j] = b[j]
    \/ \E i \in 1..Len(a) :
          /\ i <= Len(b)
          /\ Ord(a[i]) < Ord(b[i])
          /\ \A j \in 1..(i - 1) : a[j] = b[j]

\* os.path.basename(p): what follows the last "/"
Basename(p) == From(p, RFind(p, "/") + 1)

\* os.path.join(a, b) for a relative b
PathJoin(a, b) == IF a = << >> \/ a[Len(a)] = "/" THEN a \o b
                  ELSE a \o << "/" >> \o b

\* PurePath(p).name for a path that ends in a file name
PathName(p) == From(p, RFind(p, "/") + 1)

\* PurePath.suffix of the final component, as pathlib computes it up to
\* Python 3.12:
\*   i = name.rfind('.'); name[i:] if 0 < i < len(name) - 1 else ''
\* (later versions skip every leading '.' first; the two agree on the names
\* that do not begin with '.' and on those whose only '.' is the first
\* character, up to a suffix of a lone '.', which is in no catalog)
\* (a variant that takes whatever follows the last '.', also of a name that
\* begins with its only '.')
MutSuffixAfterLastDot(name) ==
    IF RFind(name, ".") > 0 THEN From(name, RFind(name, ".")) ELSE << >>
Suffix(name) ==
    LET i == RFind(name, ".")
    IN  IF 1 < i /\ i < Len(name) THEN From(name, i) ELSE << >>

----------------------------------------------------------------------------
(* The extension catalog *)

MUSIC_EXTENSIONS ==
    { << ".", "m", "p", "3" >>, << ".", "a", "a", "c" >>,
      << ".", "w", "a", "v" >>, << ".", "f", "l", "a", "c" >>,
      << ".", "m", "4", "a" >>,
      << ".", "o", "g", "a" >>, << ".", "a", "p", "e" >>,
      << ".", "d", "s", "f" >>, << ".", "d", "f", "f" >>,
      << ".", "a", "i", "f", "f" >>, << ".", "a", "i", "f" >>,
      << ".", "o", "g", "g" >> }

----------------------------------------------------------------------------
(* dict and defaultdict(int): the sequence of <<key, value>> items, in     *)
(* insertion order                                                         *)

DictKeys(d) == { d[i][1] : i \in 1..Len(d) }
DictHas(d, k) == \E i \in 1..Len(d) : d[i][1] = k
DictPos(d, k) == CHOOSE i \in 1..Len(d) : d[i][1] = k
\* d[k] of a defaultdict(int) read for an update: 0 for a missing key
DictGet(d, k) == IF DictHas(d, k) THEN d[DictPos(d, k)][2] ELSE 0
\* d[k] = v
DictSet(d, k, v) == IF DictHas(d, k)
                    THEN [d EXCEPT ![DictPos(d, k)] = << k, v >>]
                    ELSE Append(d, << k, v >>)
RECURSIVE DictSum(_)
DictSum(d) == IF d = << >> THEN 0 ELSE d[1][2] + DictSum(Tail(d))

\* the iteration orders of the set MUSIC_EXTENSIONS the model tries: the
\* order is the interpreter's, any permutation is possible
SourceOrder ==
    << << ".", "m", "p", "3" >>, << ".", "a", "a", "c" >>,
       << ".", "w", "a", "v" >>, << ".", "f", "l", "a", "c" >>,
       << ".", "m", "4", "a" >>,
       << ".", "o", "g", "a" >>, << ".", "a", "p", "e" >>,
       << ".", "d", "s", "f" >>, << ".", "d", "f", "f" >>,
       << ".", "a", "i", "f", "f" >>, << ".", "a", "i", "f" >>,
       << ".", "o", "g", "g" >> >>
Reverse(s) == [i \in 1..Len(s) |-> s[Len(s) + 1 - i]]
ExtOrders == { SourceOrder, Reverse(SourceOrder) }

----------------------------------------------------------------------------
(* sorted() *)

\* the items in the order their places give
Placed(items, places) ==
    [ k \in 1..Len(items) |->
        items[CHOOSE i \in 1..Len(items) : places[i] = k] ] \o << >>

\* sorted(items, key=lambda x: x[1], reverse=True) is stable: the place of
\* items[i] is after every item of greater count and after the items of
\* equal count that come before it
\* (a variant that keeps the items in the order met: no sorting)
MutPlaceUnsorted(items, i) == i
PlaceDesc(items, i) ==
    1 + Cardinality({ j \in 1..Len(items) : items[j][2] > items[i][2] })
      + Cardinality({ j \in 1..(i - 1) : items[j][2] = items[i][2] })
SortedByCountDesc(items) ==
    CHOOSE s \in { Placed(items, places) :
                   places \in { [ i \in 1..Len(items) |-> PlaceDesc(items, i) ] \o << >> } } : TRUE

\* sorted(keys) of strings: the place of keys[i] is after every smaller
\* key and after the equal keys that come before it
PlaceStr(keys, i) ==
    1 + Cardinality({ j \in 1..Len(keys) : StrLess(keys[j], keys[i]) })
      + Cardinality({ j \in 1..(i - 1) : keys[j] = keys[i] })
SortedStrings(keys) ==
    CHOOSE s \in { Placed(keys, places) :
                   places \in { [ i \in 1..Len(keys) |-> PlaceStr(keys, i) ] \o << >> } } : TRUE

----------------------------------------------------------------------------
(* The file system *)

\* os.walk(top): the file names it yields, directory by directory, top
\* down; a directory's subdirectories are walked in listing order
RECURSIVE Walk(_, _), WalkDirs(_, _, _)
Walk(tree, p) == tree[p].files \o WalkDirs(tree, p, tree[p].dirs)
WalkDirs(tree, p, ds) ==
    IF ds = << >> THEN << >>
    ELSE Walk(tree, Append(p, ds[1])) \o WalkDirs(tree, p, Tail(ds))

\* time.time(): the clock does not go back
Tick(t) == { t, IF t < MaxClock THEN t + 1 ELSE t }

----------------------------------------------------------------------------
(* Program constants *)

\* a progress line every ProgressEvery matching files of a subdirectory
ProgressEvery == 100
\* the least width of the extension column
MinExtWidth == 10

----------------------------------------------------------------------------
(* The inputs the model runs the program on *)

NameA == << "A" >>
NameB == << "B" >>
NameD == << "d" >>
NameE == << "e" >>

\* forms of the path argument naming the same directory m
RootPaths == { << "m" >>, << "m", "/" >>, << "d", "/", "m" >> }
\* the name of the directory every path of RootPaths names
RootDirName == << "m" >>

UpperMp3 == << "T", ".", "M", "P", "3" >>
SmallOgg == << "b", ".", "o", "g", "g" >>
SmallTxt == << "n", ".", "t", "x", "t" >>
SmallNames == { UpperMp3, SmallOgg, SmallTxt }

\* directory layouts: directory path |-> names of its subdirectories
ShapeFlat == << >> :> << >>
ShapeA == (<< >> :> << NameA >>) @@ (<< NameA >> :> << >>)
ShapeDeep == (<< >> :> << NameA >>) @@ (<< NameA >> :> << NameD >>)
             @@ (<< NameA, NameD >> :> << NameE >>)
             @@ (<< NameA, NameD, NameE >> :> << >>)
ShapeAB == (<< >> :> << NameA, NameB >>) @@ (<< NameA >> :> << >>)
           @@ (<< NameB >> :> << >>)
ShapeBA == (<< >> :> << NameB, NameA >>) @@ (<< NameA >> :> << >>)
           @@ (<< NameB >> :> << >>)
Shapes == { ShapeFlat, ShapeA, ShapeDeep, ShapeAB, ShapeBA }

RECURSIVE SetToSeq(_)
SetToSeq(S) == IF S = { } THEN << >>
               ELSE LET x == CHOOSE y \in S : TRUE
                    IN  << x >> \o SetToSeq(S \ { x })

\* the tree of a layout and a set of <<directory path, file name>>
MkTree(shape, place) ==
    [ p \in DOMAIN shape |->
        [ dirs  |-> shape[p],
          files |-> SetToSeq({ n \in SmallNames : << p, n >> \in place }) ] ]

SmallTrees ==
    { MkTree(shape, place) :
        shape \in Shapes,
        place \in { P \in SUBSET ((UNION { DOMAIN sh : sh \in Shapes }) \X SmallNames) :
                      Cardinality(P) <= MaxTotalFiles } }

\* one file of any name over a small alphabet, in a flat root or in a
\* subdirectory
ProbeChars == { ".", "o", "g" }
ProbeNames ==
    (UNION { [1..n -> ProbeChars] : n \in 1..MaxNameLen })
        \ { << "." >>, << ".", "." >> }
ProbeTrees ==
    { << >> :> [ dirs |-> << >>, files |-> << n >> ] : n \in ProbeNames }
    \cup
    { (<< >> :> [ dirs |-> << NameA >>, files |-> << >> ])
      @@ (<< NameA >> :> [ dirs |-> << >>, files |-> << n >> ]) : n \in ProbeNames }

\* a large tree: A holds BigN numbered files, half of them one level down,
\* eight in ten of them .mp3, one .FLAC, one .txt; B holds one .ogg
BigName(i) ==
    << DigitChars[((i \div 100) % 10) + 1], DigitChars[((i \div 10) % 10) + 1],
       DigitChars[(i % 10) + 1] >>
    \o (IF i % 10 = 0 THEN << ".", "t", "x", "t" >>
        ELSE IF i % 10 = 5 THEN << ".", "F", "L", "A", "C" >>
        ELSE << ".", "m", "p", "3" >>)
BigHalf == BigN \div 2
BigTree ==
    (<< >> :> [ dirs |-> << NameB, NameA >>, files |-> << UpperMp3 >> ])
    @@ (<< NameA >> :> [ dirs |-> << NameD >>,
                          files |-> [ i \in 1..BigHalf |-> BigName(i) ] ])
    @@ (<< NameA, NameD >> :> [ dirs |-> << >>,
                          files |-> [ i \in 1..(BigN - BigHalf) |-> BigName(BigHalf + i) ] ])
    @@ (<< NameB >> :> [ dirs |-> << >>, files |-> << SmallOgg >> ])

EmptyTree == << >> :> [ dirs |-> << >>, files |-> << >> ]

Init ==
    /\ pc = "main"
    /\ music_files_count = << >>
    /\ extension_counts = << >>
    /\ total_count = 0
    /\ cumulative_count = 0
    /\ top_subdirs = << >>
    /\ idx = 0
    /\ subdir_count = 0
    /\ count = 0
    /\ pending = << >>
    /\ file_ext = << >>
    /\ now = 0
    /\ start_time = 0
    /\ main_start_time = 0
    /\ stdout = << >>
    /\ uncaught = "none"
    /\ exit_status = -1
    /\ scandir_calls = 0
    /\ \/ /\ path_kind = "dir"
          /\ denied \in BOOLEAN
          /\ fs \in SmallTrees
          /\ root_path \in RootPaths
       \/ /\ path_kind = "dir"
          /\ denied = FALSE
          /\ fs \in ProbeTrees
          /\ root_path \in RootPaths
       \/ /\ path_kind = "dir"
          /\ denied = FALSE
          /\ fs = BigTree
          /\ root_path = << "m" >>
       \/ /\ path_kind \in { "file", "missing" }
          /\ denied = FALSE
          /\ fs = EmptyTree
          /\ root_path \in RootPaths

----------------------------------------------------------------------------
(* count_music_files *)

\* Path(f).suffix.lower(); each intermediate string is bound once
FileExt(path) ==
    CHOOSE ext \in { StrLower(suffix) \o << >> :
                     suffix \in { Suffix(name) :
                                  name \in { PathName(p) : p \in { path } } } } : TRUE

\* file_ext in MUSIC_EXTENSIONS
\* (a variant that takes every file that has a suffix)
MutIsMusicAnySuffix(ext) == ext # << >>
IsMusic(ext) == ext \in MUSIC_EXTENSIONS

\* d[k] += 1 on a defaultdict(int)
\* (a variant that leaves the counter as it is)
MutIncrNothing(d, k) == d
Incr(d, k) == DictSet(d, k, DictGet(d, k) + 1)

\* for ext in MUSIC_EXTENSIONS: extension_counts[ext] = 0
ZeroCounts(order) == [ i \in 1..Len(order) |-> << order[i], 0 >> ]

\* lines 26-34: the fresh aggregates
CountInit ==
    /\ pc = "count_init"
    /\ music_files_count' = << >>
    /\ \E order \in ExtOrders : extension_counts' = ZeroCounts(order)
    /\ total_count' = 0
    /\ cumulative_count' = 0
    /\ pc' = "enumerate"
    /\ UNCHANGED << root_path, path_kind, denied, fs, top_subdirs, idx,
                    subdir_count, count, pending, file_ext, now, start_time,
                    main_start_time, stdout, uncaught, exit_status,
                    scandir_calls >>

\* lines 37-38 and 53-55: os.scandir(root_path) raises PermissionError; it
\* is caught, a line is printed and the aggregates returned as they are
\* (a variant without the except clause: the error leaves main)
MutPermissionDeniedPropagates ==
    /\ pc = "enumerate"
    /\ denied
    /\ stdout' = Append(stdout, << "Traceback", "PermissionError" >>)
    /\ scandir_calls' = scandir_calls + 1
    /\ uncaught' = "PermissionError"
    /\ exit_status' = 1
    /\ pc' = "exited"
    /\ UNCHANGED << root_path, path_kind, denied, fs, music_files_count,
                    extension_counts, total_count, cumulative_count,
                    top_subdirs, idx, subdir_count, count, pending, file_ext,
                    now, start_time, main_start_time >>
PermissionDenied ==
    /\ pc = "enumerate"
    /\ denied
    /\ stdout' = Append(stdout, << "Permission denied: cannot access", root_path >>)
    /\ scandir_calls' = scandir_calls + 1
    /\ pc' = "report"
    /\ UNCHANGED << root_path, path_kind, denied, fs, music_files_count,
                    extension_counts, total_count, cumulative_count,
                    top_subdirs, idx, subdir_count, count, pending, file_ext,
                    now, start_time, main_start_time, uncaught, exit_status >>

\* lines 37-41 and 57-59: the root's subdirectories; without any, the root
\* is enumerated a second time for its files
Enumerate ==
    /\ pc = "enumerate"
    /\ ~denied
    /\ top_subdirs' = fs[<< >>].dirs
    /\ IF fs[<< >>].dirs = << >>
       THEN /\ count' = 0
            /\ pending' = fs[<< >>].files
            /\ scandir_calls' = scandir_calls + 2
            /\ pc' = "flat"
            /\ UNCHANGED << idx, stdout >>
       ELSE /\ stdout' = Append(stdout,
                   << "Scanning top-level subdirectories", Len(fs[<< >>].dirs), root_path >>)
            /\ scandir_calls' = scandir_calls + 1
            /\ idx' = 1
            /\ pc' = "subdir_begin"
            /\ UNCHANGED << count, pending >>
    /\ UNCHANGED << root_path, path_kind, denied, fs, music_files_count,
                    extension_counts, total_count, cumulative_count,
                    subdir_count, file_ext, now, start_time, main_start_time,
                    uncaught, exit_status >>

\* lines 42-47: one entry of the root, in the branch without subdirectories
FlatFile ==
    /\ pc = "flat"
    /\ pending # << >>
    /\ LET ext == FileExt(PathJoin(root_path, Head(pending)))
       IN  /\ file_ext' = ext
           /\ IF IsMusic(ext)
              THEN /\ count' = count + 1
                   /\ extension_counts' = Incr(extension_counts, ext)
              ELSE UNCHANGED << count, extension_counts >>
    /\ pending' = Tail(pending)
    /\ UNCHANGED << root_path, path_kind, denied, fs, pc, music_files_count,
                    total_count, cumulative_count, top_subdirs, idx,
                    subdir_count, now, start_time, main_start_time, stdout,
                    uncaught, exit_status, scandir_calls >>

\* lines 49-52: the root reported as the one entry, and the return
FlatDone ==
    /\ pc = "flat"
    /\ pending = << >>
    /\ music_files_count' = DictSet(music_files_count, Basename(root_path), count)
    /\ total_count' = count
    /\ stdout' = Append(stdout, << "Found music files in", count, Basename(root_path) >>)
    /\ pc' = "report"
    /\ UNCHANGED << root_path, path_kind, denied, fs, extension_counts,
                    cumulative_count, top_subdirs, idx, subdir_count, count,
                    pending, file_ext, now, start_time, main_start_time,
                    uncaught, exit_status, scandir_calls >>

\* lines 62-68: the next subdirectory; os.walk starts
SubdirBegin ==
    /\ pc = "subdir_begin"
    /\ subdir_count' = 0
    /\ stdout' = Append(stdout, << "Scanning", top_subdirs[idx] >>)
    /\ \E t \in Tick(now) : now' = t /\ start_time' = t
    /\ pending' = Walk(fs, << top_subdirs[idx] >>)
    /\ scandir_calls' = scandir_calls + 1
    /\ pc' = "walk"
    /\ UNCHANGED << root_path, path_kind, denied, fs, music_files_count,
                    extension_counts, total_count, cumulative_count,
                    top_subdirs, idx, count, file_ext, main_start_time,
                    uncaught, exit_status >>

\* subdir_count % 100 == 0
AtProgressPoint(n) == n % ProgressEvery = 0

\* line 79: subdir_count/elapsed raises ZeroDivisionError for elapsed == 0
ProgressDivides(elapsed) == elapsed # 0

\* lines 69-80: one file met by os.walk.  A ZeroDivisionError at line 79
\* is caught neither in count_music_files nor in main: the interpreter
\* prints the traceback and the process ends with status 1.
WalkFile ==
    /\ pc = "walk"
    /\ pending # << >>
    /\ LET ext == FileExt(Head(pending))
       IN  /\ file_ext' = ext
           /\ IF IsMusic(ext)
              THEN /\ subdir_count' = subdir_count + 1
                   /\ total_count' = total_count + 1
                   /\ extension_counts' = Incr(extension_counts, ext)
                   /\ IF AtProgressPoint(subdir_count + 1)
                      THEN \E t \in Tick(now) :
                             /\ now' = t
                             /\ IF ProgressDivides(t - start_time)
                                THEN /\ stdout' = Append(stdout,
                                          << "progress", top_subdirs[idx],
                                             subdir_count + 1,
                                             << subdir_count + 1, t - start_time >> >>)
                                     /\ UNCHANGED << pc, uncaught, exit_status >>
                                ELSE /\ stdout' = Append(stdout, << "Traceback", "ZeroDivisionError" >>)
                                     /\ uncaught' = "ZeroDivisionError"
                                     /\ exit_status' = 1
                                     /\ pc' = "exited"
                      ELSE UNCHANGED << now, stdout, pc, uncaught, exit_status >>
              ELSE UNCHANGED << subdir_count, total_count, extension_counts,
                                now, stdout, pc, uncaught, exit_status >>
    /\ pending' = Tail(pending)
    /\ UNCHANGED << root_path, path_kind, denied, fs, music_files_count,
                    cumulative_count, top_subdirs, idx, count, start_time,
                    main_start_time, scandir_calls >>

\* line 83: subdir_count/elapsed if elapsed else 0, as <<numerator, denominator>>
FilesPerSec(n, elapsed) == IF elapsed # 0 THEN << n, elapsed >> ELSE << 0, 1 >>

\* lines 82-91: the subdirectory's summary line and its entry
SubdirEnd ==
    /\ pc = "walk"
    /\ pending = << >>
    /\ \E t \in Tick(now) :
         /\ now' = t
         /\ stdout' = Append(stdout,
                << "subdir", top_subdirs[idx], subdir_count,
                   cumulative_count + subdir_count,
                   FilesPerSec(subdir_count, t - start_time) >>)
    /\ cumulative_count' = cumulative_count + subdir_count
    /\ music_files_count' = DictSet(music_files_count, top_subdirs[idx], subdir_count)
    /\ IF idx < Len(top_subdirs)
       THEN idx' = idx + 1 /\ pc' = "subdir_begin"
       ELSE idx' = idx /\ pc' = "report"
    /\ UNCHANGED << root_path, path_kind, denied, fs, extension_counts,
                    total_count, top_subdirs, subdir_count, count, pending,
                    file_ext, start_time, main_start_time, uncaught,
                    exit_status, scandir_calls >>

----------------------------------------------------------------------------
(* main *)

\* sorted(MUSIC_EXTENSIONS)
SortedCatalog == SortedStrings(SetToSeq(MUSIC_EXTENSIONS))

\* os.path.isdir(folder_path)
\* (a variant that asks only whether the path exists)
MutIsDirExists(kind) == kind # "missing"
IsDir(kind) == kind = "dir"

\* lines 99-111: the path is checked before anything is scanned
MainStart ==
    /\ pc = "main"
    /\ IF ~IsDir(path_kind)
       THEN /\ stdout' = Append(stdout, << "Error: not a valid directory. Exiting.", root_path >>)
            /\ exit_status' = 1
            /\ pc' = "exited"
       ELSE /\ stdout' = stdout \o << << "Selected folder", root_path >>,
                                      << "Scanning for files with extensions",
                                         SortedCatalog >> >>
            /\ exit_status' = exit_status
            /\ pc' = "count_init"
    /\ main_start_time' = now
    /\ UNCHANGED << root_path, path_kind, denied, fs, music_files_count,
                    extension_counts, total_count, cumulative_count,
                    top_subdirs, idx, subdir_count, count, pending, file_ext,
                    now, start_time, uncaught, scandir_calls >>

\* (count / total_count) * 100 if total_count > 0 else 0, as
\* <<numerator, denominator>>
Percentage(n, total) == IF total > 0 THEN << n * 100, total >> ELSE << 0, 1 >>

\* max(len(k) for k in d.keys()) if d else 0
MaxKeyLen(d) == IF d = << >> THEN 0
                ELSE CHOOSE m \in { Len(d[i][1]) : i \in 1..Len(d) } :
                        \A i \in 1..Len(d) : Len(d[i][1]) <= m

IsNonZero(item) == item[2] > 0
IsZero(item) == item[2] = 0

\* one row of a table: the name, the count and the percentage
Row(tag, item, total) == << tag, item[1], item[2], Percentage(item[2], total) >>

\* lines 126-128: the rows of the table by subfolder
Table1(folder_counts, total) ==
    CHOOSE rows \in { [ i \in 1..Len(s) |-> Row("row1", s[i], total) ] \o << >> :
                      s \in { SortedByCountDesc(folder_counts) } } : TRUE

\* lines 143-149: the rows of the extensions that were found
NonZeroRows(ext_counts, total) ==
    CHOOSE rows \in { [ i \in 1..Len(s) |-> Row("row2", s[i], total) ] \o << >> :
                      s \in { SortedByCountDesc(non_zero_exts) :
                              non_zero_exts \in { SelectSeq(ext_counts, IsNonZero) } } } : TRUE

\* lines 144 and 151-153: the rows of the extensions that were not found
ZeroRows(ext_counts) ==
    CHOOSE rows \in { [ i \in 1..Len(z) |-> << "row2", z[i], 0, << 0, 1 >> >> ] \o << >> :
                      z \in { SortedStrings(zero_keys) :
                              zero_keys \in { [ i \in 1..Len(zero_exts) |-> zero_exts[i][1] ] \o << >> :
                                              zero_exts \in { SelectSeq(ext_counts, IsZero) } } } } : TRUE

\* lines 143-153: the rows of the table by extension
Table2(ext_counts, total) == NonZeroRows(ext_counts, total) \o ZeroRows(ext_counts)

\* lines 116-156: the two tables and the total
ReportLines(folder_counts, total, ext_counts) ==
    << << "Music Files Count by Top Subfolder", MaxKeyLen(folder_counts) + 2 >> >>
    \o Table1(folder_counts, total)
    \o << << "Music Files Count by Extension",
             (IF MaxKeyLen(ext_counts) > MinExtWidth
              THEN MaxKeyLen(ext_counts) ELSE MinExtWidth) + 2 >> >>
    \o Table2(ext_counts, total)
    \o << << "Total music files", total >> >>

\* lines 113-157: the report
Report ==
    /\ pc = "report"
    /\ \E lines \in { ReportLines(music_files_count, total_count, extension_counts) } :
       \E t \in Tick(now) :
         /\ now' = t
         /\ stdout' = stdout \o lines \o << << "Scan completed in", t - main_start_time >> >>
    /\ exit_status' = 0
    /\ pc' = "exited"
    /\ UNCHANGED << root_path, path_kind, denied, fs, music_files_count,
                    extension_counts, total_count, cumulative_count,
                    top_subdirs, idx, subdir_count, count, pending, file_ext,
                    start_time, main_start_time, uncaught, scandir_calls >>

Next ==
    \/ MainStart
    \/ CountInit
    \/ PermissionDenied
    \/ Enumerate
    \/ FlatFile
    \/ FlatDone
    \/ SubdirBegin
    \/ WalkFile
    \/ SubdirEnd
    \/ Report

Spec == Init /\ [][Next]_vars

\* The program is one thread that runs until it exits: a step that can be
\* taken is taken.  Termination is checked on the small trees and the large
\* one, with the path in its plain form.
InitLive == Init /\ (fs \in SmallTrees \/ fs = BigTree) /\ root_path = << "m" >>
FairSpec == InitLive /\ [][Next]_vars /\ WF_vars(Next)

----------------------------------------------------------------------------
(* Properties *)

\* count_music_files has returned to main
Returned == pc = "report" \/ (pc = "exited" /\ exit_status = 0)

\* a loop of count_music_files is about to meet the file Head(pending)
FileStep == pc \in { "flat", "walk" } /\ pending # << >>

HasLine(tag) == \E i \in 1..Len(stdout) : stdout[i][1] = tag
IsRow1(line) == line[1] = "row1"
IsRow2(line) == line[1] = "row2"
IsMusicName(name) == StrLower(Suffix(name)) \in MUSIC_EXTENSIONS
NonZeroItems(d) == { i \in 1..Len(d) : d[i][2] > 0 }

Mp3 == << ".", "m", "p", "3" >>
Ogg == << ".", "o", "g", "g" >>
Txt == << ".", "t", "x", "t" >>

\* C1: when count_music_files returns, Total Count equals the sum of the
\* Extension Count Map's values and the sum of the Folder Count Map's values.
C1_TotalsAgree ==
    Returned =>
        /\ total_count = DictSum(extension_counts)
        /\ total_count = DictSum(music_files_count)

\* two subfolders and two extensions have been counted
C1_Witness ==
    /\ Returned
    /\ Len(music_files_count) = 2
    /\ music_files_count[1][2] > 0
    /\ music_files_count[2][2] > 0
    /\ Cardinality(NonZeroItems(extension_counts)) = 2

\* C2 (as claimed): the returned total is the number of files in the root
\* or at any depth beneath it whose extension is in MUSIC_EXTENSIONS, also
\* when the root holds matching files beside a subdirectory.
C2_TotalCountsWholeTree ==
    (Returned /\ ~denied) =>
        total_count = Len(SelectSeq(Walk(fs, << >>), IsMusicName))

\* C3: once the aggregates are initialised, and when count_music_files
\* returns, the keys of the Extension Count Map are exactly the catalog,
\* each once; and a file whose extension is not in the catalog changes no
\* count and adds no key.
C3_KeysAreTheCatalog ==
    /\ [](pc \notin { "main", "count_init" } /\ path_kind = "dir" =>
            /\ DictKeys(extension_counts) = MUSIC_EXTENSIONS
            /\ Len(extension_counts) = Cardinality(MUSIC_EXTENSIONS))
    /\ [][(FileStep /\ file_ext' \notin MUSIC_EXTENSIONS) =>
            /\ extension_counts' = extension_counts
            /\ total_count' = total_count
            /\ subdir_count' = subdir_count
            /\ count' = count]_vars

\* a .txt file has been met and the scan has returned with all the keys
C3_Witness ==
    /\ Returned
    /\ file_ext = Txt
    /\ DictKeys(extension_counts) = MUSIC_EXTENSIONS
    /\ \E i \in 1..Len(extension_counts) : extension_counts[i][2] = 0

\* the step counts the file under extension e, and under nothing else
CountedAs(e) ==
    /\ DictGet(extension_counts', e) = DictGet(extension_counts, e) + 1
    /\ \A k \in DictKeys(extension_counts) \cup DictKeys(extension_counts') :
          k # e => DictGet(extension_counts', k) = DictGet(extension_counts, k)
    /\ pc = "flat" => count' = count + 1
    /\ pc = "walk" => subdir_count' = subdir_count + 1 /\ total_count' = total_count + 1

\* the step counts the file nowhere
CountedNowhere ==
    /\ extension_counts' = extension_counts
    /\ count' = count
    /\ subdir_count' = subdir_count
    /\ total_count' = total_count

\* what follows the last '.' of the name, with that '.', lower-cased
AfterLastDotLower(name) ==
    IF RFind(name, ".") = 0 THEN << >>
    ELSE StrLower(SubSeq(name, RFind(name, "."), Len(name)))

\* C4 (as claimed): the extension of every file met is what follows the
\* last '.' of its name, lower-cased, and the file is counted if and only
\* if that extension is in the Extension Set.
C4_ExtensionAfterLastDot ==
    [][FileStep =>
         IF AfterLastDotLower(Head(pending)) \in MUSIC_EXTENSIONS
         THEN CountedAs(AfterLastDotLower(Head(pending)))
         ELSE CountedNowhere]_vars

\* C4 (amended): for a file name that does not begin with '.', the
\* extension is what follows the last '.', lower-cased, and the file is
\* counted under it if and only if it is in the Extension Set; a name whose
\* only '.' is its first character has no extension and is counted nowhere.
C4_ExtensionOfPlainNames ==
    [][FileStep =>
         IF Head(pending)[1] # "."
         THEN IF AfterLastDotLower(Head(pending)) \in MUSIC_EXTENSIONS
              THEN CountedAs(AfterLastDotLower(Head(pending)))
              ELSE CountedNowhere
         ELSE RFind(Head(pending), ".") = 1 => CountedNowhere]_vars

\* T.MP3 has been met in a subdirectory and counted as .mp3
C4_Witness ==
    /\ pc = "walk"
    /\ fs[<< >>].dirs = << NameA >>
    /\ fs[<< NameA >>].files = << UpperMp3 >>
    /\ pending = << >>
    /\ file_ext = Mp3
    /\ subdir_count = 1
    /\ DictGet(extension_counts, Mp3) = 1

\* C5 (as claimed): a root without subdirectories and with n matching files
\* yields one Folder Count Map entry, keyed by the root's own name and
\* mapped to n, and a Total Count of n, without any walk, whatever the form
\* of the path string.
C5_FlatRootKeyedByItsName ==
    (Returned /\ ~denied /\ fs[<< >>].dirs = << >>) =>
        /\ music_files_count =
             << << RootDirName, Len(SelectSeq(fs[<< >>].files, IsMusicName)) >> >>
        /\ total_count = Len(SelectSeq(fs[<< >>].files, IsMusicName))
        /\ scandir_calls = 2
        /\ ~HasLine("Scanning")

\* C6 (as claimed): no exception leaves main: each is caught at the top
\* level and printed as "Error: message", and the exit is graceful.
C6_NoUncaughtException ==
    pc = "exited" => uncaught = "none" /\ ~HasLine("Traceback")

\* C7: when enumerating the root is denied, count_music_files prints a
\* line and returns the empty Folder Count Map, Total Count 0 and every
\* extension at 0, and main runs to the end of the report.
C7_DeniedRootStillReports ==
    /\ []((path_kind = "dir" /\ denied) =>
            /\ pc \in { "main", "count_init", "enumerate", "report", "exited" }
            /\ pc \in { "report", "exited" } =>
                  /\ HasLine("Permission denied: cannot access")
                  /\ music_files_count = << >>
                  /\ total_count = 0
                  /\ DictKeys(extension_counts) = MUSIC_EXTENSIONS
                  /\ \A i \in 1..Len(extension_counts) : extension_counts[i][2] = 0
                  /\ uncaught = "none"
            /\ pc = "exited" =>
                  /\ exit_status = 0
                  /\ stdout[Len(stdout)][1] = "Scan completed in"
                  /\ SelectSeq(stdout, IsRow1) = << >>
                  /\ Len(SelectSeq(stdout, IsRow2)) = Cardinality(MUSIC_EXTENSIONS))
    /\ (path_kind = "dir" /\ denied) ~> (pc = "exited" /\ exit_status = 0)

\* the denied run has printed its report
C7_Witness ==
    /\ denied
    /\ pc = "exited"
    /\ exit_status = 0
    /\ HasLine("Permission denied: cannot access")
    /\ HasLine("Total music files")

\* C8: a path that is missing or not a directory ends the process with a
\* non-zero status after one error line, and nothing is enumerated and
\* count_music_files is not entered before that exit; a run on a directory
\* in which no error occurs reaches the end of the report.
C8_InvalidPathFailsFast ==
    /\ [](path_kind # "dir" =>
            /\ scandir_calls = 0
            /\ pc \in { "main", "exited" }
            /\ pc = "exited" =>
                  /\ exit_status = 1
                  /\ stdout = << << "Error: not a valid directory. Exiting.", root_path >> >>)
    /\ (path_kind # "dir") ~> (pc = "exited" /\ exit_status = 1)
    /\ (path_kind = "dir") ~>
          (pc = "exited" /\ (uncaught = "none" =>
                                exit_status = 0 /\ HasLine("Scan completed in")))

\* the path names a regular file and the process has exited
C8_Witness ==
    /\ path_kind = "file"
    /\ pc = "exited"
    /\ exit_status = 1
    /\ Len(stdout) = 1

\* C9: the table by extension holds each catalog extension once, first
\* those with a non-zero count by descending count, then those with a zero
\* count in alphabetical order; the table by subfolder holds one row per
\* Folder Count Map entry by descending count.
C9_TablesOrdered ==
    (pc = "exited" /\ exit_status = 0) =>
        LET t1 == SelectSeq(stdout, IsRow1)
            t2 == SelectSeq(stdout, IsRow2)
        IN  /\ Len(t2) = Cardinality(MUSIC_EXTENSIONS)
            /\ { t2[i][2] : i \in 1..Len(t2) } = MUSIC_EXTENSIONS
            /\ \A i \in 1..Len(t2) : t2[i][3] = DictGet(extension_counts, t2[i][2])
            /\ \A i, j \in 1..Len(t2) :
                  i < j => /\ t2[i][3] >= t2[j][3]
                           /\ (t2[i][3] = 0 /\ t2[j][3] = 0) =>
                                 StrLess(t2[i][2], t2[j][2])
            /\ Len(t1) = Len(music_files_count)
            /\ { << t1[i][2], t1[i][3] >> : i \in 1..Len(t1) }
                 = { music_files_count[i] : i \in 1..Len(music_files_count) }
            /\ \A i, j \in 1..Len(t1) : i < j => t1[i][3] >= t1[j][3]

\* the report of a scan that found three extensions in unequal numbers, and
\* whose second subfolder holds more than its first
C9_Witness ==
    /\ pc = "exited"
    /\ exit_status = 0
    /\ Len(music_files_count) = 2
    /\ music_files_count[1][2] < music_files_count[2][2]
    /\ Cardinality(NonZeroItems(extension_counts)) = 3
    /\ DictGet(extension_counts, Mp3) > DictGet(extension_counts, Ogg)

\* C10 (as claimed): each time the count of a subdirectory reaches a
\* multiple of 100 a progress line is printed, whatever the elapsed time,
\* zero included, and the scan goes on.
C10_ProgressAtAnyElapsed ==
    [][(/\ pc = "walk"
        /\ pending # << >>
        /\ IsMusicName(Head(pending))
        /\ (subdir_count + 1) % ProgressEvery = 0) =>
         /\ pc' = "walk"
         /\ uncaught' = "none"
         /\ stdout'[Len(stdout')][1] = "progress"
         /\ stdout'[Len(stdout')][3] = subdir_count + 1]_vars

====
